---- MODULE Spec2Model ----
(***************************************************************************)
(* A model of the nonogram solver of nonograms.rs: the Nonogram grid       *)
(* (src/src/nonogram.rs) and the constraint-propagation Solver             *)
(* (src/src/solver.rs): candidate generation, consensus, filtering and     *)
(* the solve loop.                                                         *)
(*                                                                         *)
(* Coordinates x, y and line numbers are 0-based, as in the Rust code;     *)
(* TLA+ sequences are 1-based, so element i of a Vec is seq[i + 1].        *)
(***************************************************************************)
EXTENDS Integers, Sequences, FiniteSets, TLC

VARIABLES
    width,      \* Nonogram.width
    height,     \* Nonogram.height
    cells,      \* Nonogram.cells, row-major
    nono_rows,  \* Nonogram.rows: the row constraints
    nono_cols,  \* Nonogram.cols: the column constraints
    rows,       \* Solver.rows: one candidate mask set per row
    cols,       \* Solver.cols: one candidate mask set per column
    pc,         \* where the program is
    round,      \* history: the grid and the candidate sets as the current
                \* round of solve found them, and whether the round before
                \* it made progress
    call,       \* a function applied on its own: its arguments and result
    previous,   \* history: the outcome and the final cells of the execution
                \* before this one, when two executions are compared
    builder,    \* a NonogramBuilder: its fields and what build returned
    driver      \* the command-line driver: its arguments and its position

vars == <<width, height, cells, nono_rows, nono_cols, rows, cols, pc, round,
          call, previous, builder, driver>>

\* ------------------------------------------------------------------ bounds

\* The largest number of cells (width * height) of a modelled puzzle.
MaxCells == 5
\* The candidate generator on its own: the largest capacity, the largest
\* run and the largest number of runs of a constraint.
MaxCapacity == 6
MaxRun == 3
MaxRuns == 2
\* find_consensus on its own: the largest number of masks and the largest
\* mask length.
MaxMasks == 3
MaxMaskLen == 2

\* The side of the largest puzzle with one full row.
MaxSide == 5

\* The file arguments of the command line.
MaxArgs == 2

\* The calls of push_row_constraint, and of push_col_constraint, on one
\* NonogramBuilder, and the largest width and height given to it.
MaxPushes == 3

\* usize arithmetic is modular.  The code's usize has the platform's width
\* (2^64 on the usual targets); the model keeps the wrapping and scales the
\* modulus down.  Every capacity and every sum of runs within the bounds is
\* below it.
UsizeModulus == 16

\* ------------------------------------------------------------- CellState

Undecided == "Undecided"
Empty == "Empty"
Filled == "Filled"
CellState == {Undecided, Empty, Filled}

\* consensus_eq gone wrong: two cells that differ give the second one.
consensus_eq_keeps_other(self, other) == IF self = other THEN self ELSE other

\* consensus_eq gone wrong: an Undecided cell takes the other cell.
consensus_eq_adopts(self, other) ==
    IF self = other \/ self = Undecided THEN other ELSE Undecided

\* CellState::consensus_eq
consensus_eq(self, other) == IF self = other THEN self ELSE Undecided

\* accepts gone wrong: the candidate's cell taken as the accepting side.
accepts_swapped(self, other) == other = Undecided \/ self = other

\* CellState::accepts: self is the grid's cell, other the candidate's.
accepts(self, other) == self = Undecided \/ self = other

\* ------------------------------------------------------- helper operators

Min(a, b) == IF a <= b THEN a ELSE b

RECURSIVE Sum(_)
\* constraint.iter().sum::<usize>()
Sum(s) == IF s = <<>> THEN 0 ELSE Head(s) + Sum(Tail(s))

\* vec![v; n] and the push loops of into_mask
Repeat(v, n) == [i \in 1 .. n |-> v]

RECURSIVE Concat(_)
\* The concatenation of a sequence of sequences.
Concat(ss) == IF ss = <<>> THEN <<>> ELSE Head(ss) \o Concat(Tail(ss))

Range(s) == {s[i] : i \in DOMAIN s}

\* Sequences over S of length at most n.
SeqUpTo(S, n) == UNION {[1 .. k -> S] : k \in 0 .. n}

\* The cells a constraint needs: its runs and one separator between two.
Needed(c) == Sum(c) + (IF c = <<>> THEN 0 ELSE Len(c) - 1)

\* The constraints given to a line of capacity cap: every sequence of
\* positive runs that needs at most cap + 1 cells.  Those that need cap + 1
\* do not fit: a sum of cap + 1, or no room for the separators.  (k runs
\* need at least 2k - 1 cells, so there are at most (cap + 2) \div 2.)
LineConstraints(cap) ==
    {c \in SeqUpTo(1 .. cap + 1, (cap + 2) \div 2) : Needed(c) <= cap + 1}

\* The outcome of a call: a value, or a panic (val is then <<>>).
Ok(v) == [panic |-> FALSE, val |-> v]
Panicked == [panic |-> TRUE, val |-> <<>>]

\* --------------------------------------------------- candidate generation

RECURSIVE make_candidates(_, _, _, _), make_candidates_loop(_, _, _, _, _, _)
\* make_candidates gone wrong: no separator required between two runs.
make_candidates_no_separator(blanks, nth_seq, total_seqs, base) ==
    IF nth_seq > total_seqs
    THEN IF blanks = 0 THEN <<base>> ELSE <<>>
    ELSE make_candidates_loop(0, (blanks + 1) % UsizeModulus, blanks, nth_seq,
                              total_seqs, base)

\* make_candidates gone wrong: a finished assignment is pushed twice.
make_candidates_pushes_twice(blanks, nth_seq, total_seqs, base) ==
    IF nth_seq > total_seqs
    THEN IF blanks = 0 THEN <<base, base>> ELSE <<>>
    ELSE LET min == IF nth_seq = 1 \/ nth_seq = total_seqs THEN 0 ELSE 1
         IN make_candidates_loop(min, (blanks + 1) % UsizeModulus, blanks, nth_seq,
                                 total_seqs, base)

\* make_candidates: the results pushed, in order, by the call with these
\* arguments.  `blanks + 1` is computed in usize.
make_candidates(blanks, nth_seq, total_seqs, base) ==
    IF nth_seq > total_seqs
    THEN IF blanks = 0 THEN <<base>> ELSE <<>>
    ELSE LET min == IF nth_seq = 1 \/ nth_seq = total_seqs THEN 0 ELSE 1
         IN make_candidates_loop(min, (blanks + 1) % UsizeModulus, blanks, nth_seq,
                                 total_seqs, base)

\* The loop of make_candidates gone wrong: `for i in min..blanks`.
make_candidates_loop_short(i, end, blanks, nth_seq, total_seqs, base) ==
    IF i + 1 >= end
    THEN <<>>
    ELSE make_candidates(blanks - i, nth_seq + 1, total_seqs, Append(base, i))
         \o make_candidates_loop(i + 1, end, blanks, nth_seq, total_seqs, base)

\* The loop `for i in min..blanks + 1` of make_candidates, from i on.
make_candidates_loop(i, end, blanks, nth_seq, total_seqs, base) ==
    IF i >= end
    THEN <<>>
    ELSE make_candidates(blanks - i, nth_seq + 1, total_seqs, Append(base, i))
         \o make_candidates_loop(i + 1, end, blanks, nth_seq, total_seqs, base)

\* into_mask gone wrong: the runs zipped without the chained 0, so that
\* the last gap is dropped.
into_mask_without_last_gap(empty, filled) ==
    IF Len(empty) # Len(filled) + 1
    THEN Panicked
    ELSE Ok(Concat([i \in 1 .. Len(filled) |->
                       Repeat(Empty, empty[i]) \o Repeat(Filled, filled[i])]))

\* into_mask: Empty * empty[0], Filled * filled[0], ..., Empty * empty[k];
\* the assertion on the lengths panics.
into_mask(empty, filled) ==
    IF Len(empty) # Len(filled) + 1
    THEN Panicked
    ELSE LET f == Append(filled, 0)
         IN Ok(Concat([i \in 1 .. Len(empty) |->
                          Repeat(Empty, empty[i]) \o Repeat(Filled, f[i])]))

\* candidates.  `capacity - occupation` is a usize subtraction: with
\* overflow checks (a debug build) it panics when occupation > capacity,
\* without them (a release build) it wraps.
candidates(constraint, capacity, overflow_checks) ==
    LET count == Len(constraint) + 1
        occupation == Sum(constraint)
    IN IF occupation > capacity /\ overflow_checks
       THEN Panicked
       ELSE LET blanks == (capacity - occupation) % UsizeModulus
                results == make_candidates(blanks, 1, count, <<>>)
                masks == [i \in 1 .. Len(results) |->
                             into_mask(results[i], constraint)]
            IN IF \E i \in 1 .. Len(masks) : masks[i].panic
               THEN Panicked
               ELSE Ok([i \in 1 .. Len(masks) |-> masks[i].val])

\* -------------------------------------------------------------- consensus

RECURSIVE find_consensus_fold(_, _, _)
\* The loop of find_consensus over cands[1..], from the n-th mask (1-based)
\* on; zip stops at the shorter of the two masks.
find_consensus_fold(ret, cands, n) ==
    IF n > Len(cands)
    THEN ret
    ELSE find_consensus_fold(
             [i \in 1 .. Min(Len(ret), Len(cands[n])) |->
                 consensus_eq(ret[i], cands[n][i])],
             cands, n + 1)

\* A find_consensus without its loop: the first candidate as it is.
find_consensus_first(cands) ==
    IF Len(cands) = 0 THEN Panicked ELSE Ok(cands[1])

\* find_consensus: cands[0] panics on an empty set.
find_consensus(cands) ==
    IF Len(cands) = 0
    THEN Panicked
    ELSE Ok(find_consensus_fold(cands[1], cands, 2))

\* ----------------------------------------------------------------- filter

\* can_place with any in place of all: one accepted cell is enough.
can_place_any(grid, cand) ==
    \E i \in 1 .. Min(Len(grid), Len(cand)) : accepts(grid[i], cand[i])

\* can_place: zip stops at the shorter of the two.
can_place(grid, cand) ==
    \A i \in 1 .. Min(Len(grid), Len(cand)) : accepts(grid[i], cand[i])

\* retain gone wrong: the candidates that fit are pushed after the others
\* instead of being the only ones kept.
retain_extend(cands, grid) ==
    cands \o SelectSeq(cands, LAMBDA cand : can_place(grid, cand))

\* retain with its test inverted: the candidates that do not fit are kept.
retain_inverted(cands, grid) ==
    SelectSeq(cands, LAMBDA cand : ~can_place(grid, cand))

\* Vec::retain(|cand| can_place(grid, cand))
retain(cands, grid) == SelectSeq(cands, LAMBDA cand : can_place(grid, cand))

\* --------------------------------------------------------------- Nonogram

\* Nonogram::xy_to_index
xy_to_index(x, y) == y * width + x

\* Nonogram::row: the slice of cells of row y, None when y >= height.
row(cs, y) ==
    IF y >= height
    THEN Panicked
    ELSE Ok(SubSeq(cs, xy_to_index(0, y) + 1, xy_to_index(width, y)))

\* A column gathered from the last row up.
column_upwards(cs, x) ==
    IF x >= width
    THEN Panicked
    ELSE Ok([y \in 1 .. height |-> cs[xy_to_index(x, height - y) + 1]])

\* Nonogram::column: the cells of column x gathered into a Vec, None when
\* x >= width.
column(cs, x) ==
    IF x >= width
    THEN Panicked
    ELSE Ok([y \in 1 .. height |-> cs[xy_to_index(x, y - 1) + 1]])

\* Index<(usize, usize)>: the cell at (x, y); the Vec panics on an index
\* outside cells.
Index(cs, x, y) ==
    IF xy_to_index(x, y) >= Len(cs)
    THEN Panicked
    ELSE Ok(cs[xy_to_index(x, y) + 1])

\* IndexMut<(usize, usize)> followed by an assignment of v: the cells
\* after `self[(x, y)] = v`.
IndexMut(cs, x, y, v) ==
    IF xy_to_index(x, y) >= Len(cs)
    THEN Panicked
    ELSE Ok([cs EXCEPT ![xy_to_index(x, y) + 1] = v])

\* A clear_solution that leaves the cells as they are.
clear_solution_keeps(cs) == cs

\* Nonogram::clear_solution
clear_solution(cs) == [i \in 1 .. Len(cs) |-> Undecided]

\* ----------------------------------------------------------------- Solver

\* The grid during a step, and whether the step has panicked.
Running(cs) == [panic |-> FALSE, cells |-> cs]

RECURSIVE write_squares(_, _, _, _, _)
\* The loop of consensus_step without its test: an Undecided square of
\* the consensus is written as any other.
write_squares_undecided_too(consensus, i, line, is_row, st) ==
    IF st.panic \/ i >= Len(consensus)
    THEN st
    ELSE LET index == IF is_row THEN xy_to_index(i, line)
                                ELSE xy_to_index(line, i)
         IN IF index >= Len(st.cells)
            THEN [st EXCEPT !.panic = TRUE]
            ELSE write_squares(consensus, i + 1, line, is_row,
                     [st EXCEPT !.cells[index + 1] = consensus[i + 1]])

\* The inner loop of consensus_step over the squares of one line's
\* consensus, from square i on: `self.nono[(x, y)] = *square` for a row,
\* with x the square and y the line, and with x the line and y the square
\* for a column; IndexMut panics on an index outside cells.
write_squares(consensus, i, line, is_row, st) ==
    IF st.panic \/ i >= Len(consensus)
    THEN st
    ELSE IF consensus[i + 1] = Undecided
    THEN write_squares(consensus, i + 1, line, is_row, st)
    ELSE LET index == IF is_row THEN xy_to_index(i, line)
                                ELSE xy_to_index(line, i)
         IN IF index >= Len(st.cells)
            THEN [st EXCEPT !.panic = TRUE]
            ELSE write_squares(consensus, i + 1, line, is_row,
                     [st EXCEPT !.cells[index + 1] = consensus[i + 1]])

RECURSIVE consensus_lines(_, _, _, _)
\* One outer loop of consensus_step (over self.rows or over self.cols),
\* from line n on.
consensus_lines(sets, n, is_row, st) ==
    IF st.panic \/ n >= Len(sets)
    THEN st
    ELSE LET consensus == find_consensus(sets[n + 1])
         IN IF consensus.panic
            THEN [st EXCEPT !.panic = TRUE]
            ELSE consensus_lines(sets, n + 1, is_row,
                     write_squares(consensus.val, 0, n, is_row, st))

\* The `// Rows` loop of filter_step: every row's set filtered against
\* the row of the grid.
filter_rows(sets, cs) ==
    [n \in 1 .. Len(sets) |->
        IF n <= height THEN retain(sets[n], row(cs, n - 1).val) ELSE sets[n]]

\* The `// Cols` loop of filter_step: every column's set filtered against
\* the gathered column of the grid.
filter_cols(sets, cs) ==
    [n \in 1 .. Len(sets) |->
        IF n <= width THEN retain(sets[n], column(cs, n - 1).val) ELSE sets[n]]

\* What a round is measured against: the grid and the candidate sets.
Snapshot(cs, rs, cl) == [cells |-> cs, rows |-> rs, cols |-> cl]

\* The number of candidates of all the lines.
RECURSIVE CountCandidates(_)
CountCandidates(sets) ==
    IF sets = <<>> THEN 0 ELSE Len(Head(sets)) + CountCandidates(Tail(sets))

\* A round made progress: a cell that was Undecided is determined, or a
\* candidate was eliminated.
MadeProgress(before, after) ==
    \/ \E i \in 1 .. Len(before.cells) :
           before.cells[i] = Undecided /\ after.cells[i] # Undecided
    \/ CountCandidates(after.rows) < CountCandidates(before.rows)
    \/ CountCandidates(after.cols) < CountCandidates(before.cols)

NoCall == [fn |-> "none"]
NoPrevious == [run |-> FALSE, outcome |-> "none", prior |-> <<>>,
               cells |-> <<>>]
NoBuilder == [state |-> "none"]
NoDriver == [state |-> "none"]
NoRound == [started |-> FALSE, progress |-> TRUE, at |-> <<>>]

\* The puzzles: a Nonogram as NonogramBuilder::build validates it
\* (rows.len() = height, cols.len() = width) and Nonogram::new creates it
\* (every cell Undecided).
Dimensions ==
    {d \in (1 .. MaxCells) \X (1 .. MaxCells) : d[1] * d[2] <= MaxCells}

Init ==
    /\ \E d \in Dimensions :
           /\ width = d[1]
           /\ height = d[2]
           /\ nono_rows \in [1 .. d[2] -> LineConstraints(d[1])]
           /\ nono_cols \in [1 .. d[1] -> LineConstraints(d[2])]
           /\ cells = Repeat(Undecided, d[1] * d[2])
    /\ rows = <<>>
    /\ cols = <<>>
    /\ pc = "new"
    /\ round = NoRound
    /\ call = NoCall
    /\ previous = NoPrevious
    /\ builder = NoBuilder
    /\ driver = NoDriver

\* A Solver::new that drops, from the sets it generates, the candidates
\* that do not fit the cells the grid holds.
New_fitting_cells ==
    /\ pc = "new"
    /\ \E overflow_checks \in BOOLEAN :
           LET rs == [y \in 1 .. Len(nono_rows) |->
                         candidates(nono_rows[y], width, overflow_checks)]
               cl == [x \in 1 .. Len(nono_cols) |->
                         candidates(nono_cols[x], height, overflow_checks)]
           IN IF \/ \E y \in 1 .. Len(rs) : rs[y].panic
                 \/ \E x \in 1 .. Len(cl) : cl[x].panic
              THEN /\ pc' = "panic"
                   /\ UNCHANGED <<rows, cols>>
              ELSE /\ pc' = "solve"
                   /\ rows' = filter_rows([y \in 1 .. Len(rs) |-> rs[y].val],
                                          cells)
                   /\ cols' = filter_cols([x \in 1 .. Len(cl) |-> cl[x].val],
                                          cells)
    /\ UNCHANGED <<width, height, cells, nono_rows, nono_cols, round, call,
                   previous, builder, driver>>

\* Solver::new: the candidate sets of the rows, then of the columns.  A
\* panic of candidates ends the program.
New ==
    /\ pc = "new"
    /\ \E overflow_checks \in BOOLEAN :
           LET rs == [y \in 1 .. Len(nono_rows) |->
                         candidates(nono_rows[y], width, overflow_checks)]
               cl == [x \in 1 .. Len(nono_cols) |->
                         candidates(nono_cols[x], height, overflow_checks)]
           IN IF \/ \E y \in 1 .. Len(rs) : rs[y].panic
                 \/ \E x \in 1 .. Len(cl) : cl[x].panic
              THEN /\ pc' = "panic"
                   /\ UNCHANGED <<rows, cols>>
              ELSE /\ pc' = "solve"
                   /\ rows' = [y \in 1 .. Len(rs) |-> rs[y].val]
                   /\ cols' = [x \in 1 .. Len(cl) |-> cl[x].val]
    /\ UNCHANGED <<width, height, cells, nono_rows, nono_cols, round, call,
                   previous, builder, driver>>

\* solve, line 62: self.nono.clear_solution()
ClearSolution ==
    /\ pc = "solve"
    /\ cells' = clear_solution(cells)
    /\ pc' = "while"
    /\ UNCHANGED <<width, height, nono_rows, nono_cols, rows, cols, round,
                   call, previous, builder, driver>>

\* solve, line 63: the test of the while loop.
WhileTest ==
    /\ pc = "while"
    /\ IF \E i \in 1 .. Len(cells) : cells[i] = Undecided
       THEN /\ pc' = "consensus_rows"
            /\ round' = [round EXCEPT !.started = TRUE,
                                      !.at = Snapshot(cells, rows, cols)]
       ELSE /\ pc' = "done"
            /\ UNCHANGED round
    /\ UNCHANGED <<width, height, cells, nono_rows, nono_cols, rows, cols,
                   call, previous, builder, driver>>

\* consensus_step, the `// Rows` loop.
ConsensusRows ==
    /\ pc = "consensus_rows"
    /\ LET st == consensus_lines(rows, 0, TRUE, Running(cells))
       IN /\ cells' = st.cells
          /\ pc' = IF st.panic THEN "panic" ELSE "consensus_cols"
    /\ UNCHANGED <<width, height, nono_rows, nono_cols, rows, cols, round,
                   call, previous, builder, driver>>

\* consensus_step, the `// Columns` loop.
ConsensusCols ==
    /\ pc = "consensus_cols"
    /\ LET st == consensus_lines(cols, 0, FALSE, Running(cells))
       IN /\ cells' = st.cells
          /\ pc' = IF st.panic THEN "panic" ELSE "filter_rows"
    /\ UNCHANGED <<width, height, nono_rows, nono_cols, rows, cols, round,
                   call, previous, builder, driver>>

\* A filter of the rows against the grid as it was before the consensus
\* of the round.
FilterRows_before_consensus ==
    /\ pc = "filter_rows"
    /\ rows' = filter_rows(rows, round.at.cells)
    /\ pc' = "filter_cols"
    /\ UNCHANGED <<width, height, cells, nono_rows, nono_cols, cols, round,
                   call, previous, builder, driver>>

\* filter_step, the `// Rows` loop.
FilterRows ==
    /\ pc = "filter_rows"
    /\ rows' = filter_rows(rows, cells)
    /\ pc' = "filter_cols"
    /\ UNCHANGED <<width, height, cells, nono_rows, nono_cols, cols, round,
                   call, previous, builder, driver>>

\* filter_step, the `// Cols` loop; the round ends and solve is back at
\* the test of the loop.
FilterCols ==
    /\ pc = "filter_cols"
    /\ cols' = filter_cols(cols, cells)
    /\ pc' = "while"
    /\ round' = [round EXCEPT
                    !.progress = MadeProgress(round.at,
                                              Snapshot(cells, rows, cols'))]
    /\ UNCHANGED <<width, height, cells, nono_rows, nono_cols, rows, call,
                   previous, builder, driver>>

Next ==
    \/ New
    \/ ClearSolution
    \/ WhileTest
    \/ ConsensusRows
    \/ ConsensusCols
    \/ FilterRows
    \/ FilterCols

Spec == Init /\ [][Next]_vars

\* ------------------------------------------------ the same Nonogram again

\* What the cells of a solved Nonogram may hold before it is solved again:
\* what solve left, or any one state in every cell (all Undecided is
\* clear_solution called by hand; cells is a public field).
PriorCells(cs) == {cs} \cup {Repeat(v, Len(cs)) : v \in CellState}

\* main.rs, line 14, a second time on the same Nonogram:
\* `Solver::new(&mut n).solve()`.  solve has returned and its Solver is
\* dropped, which ends the borrow of the Nonogram; the next Solver::new
\* generates its own candidate sets.
Again ==
    /\ pc = "done"
    /\ ~previous.run
    /\ \E prior \in PriorCells(cells) :
           /\ cells' = prior
           /\ previous' = [run |-> TRUE, outcome |-> pc, prior |-> prior,
                           cells |-> cells]
    /\ rows' = <<>>
    /\ cols' = <<>>
    /\ round' = NoRound
    /\ pc' = "new"
    /\ UNCHANGED <<width, height, nono_rows, nono_cols, call, builder,
                   driver>>

NextAgain ==
    \/ Next
    \/ Again

SpecAgain == Init /\ [][NextAgain]_vars

\* -------------------------------------------------- the transposed puzzle

\* The cells of the transposed grid of a grid of width w and height h:
\* the cell at (x, y) of the transposed grid, of width h, is the cell at
\* (y, x) of the grid.
TransposedCells(cs, w, h) ==
    [i \in 1 .. w * h |-> cs[((i - 1) % h) * w + ((i - 1) \div h) + 1]]

\* main.rs, line 14, in another execution, on the transposed puzzle: the
\* Nonogram that NonogramBuilder::build returns for the width and the
\* height swapped and the row and column constraints swapped.
Transpose ==
    /\ pc \in {"done", "panic"}
    /\ ~previous.run
    /\ width' = height
    /\ height' = width
    /\ nono_rows' = nono_cols
    /\ nono_cols' = nono_rows
    /\ cells' = Repeat(Undecided, width * height)
    /\ previous' = [run |-> TRUE, outcome |-> pc, prior |-> cells',
                    cells |-> cells]
    /\ rows' = <<>>
    /\ cols' = <<>>
    /\ round' = NoRound
    /\ pc' = "new"
    /\ UNCHANGED <<call, builder, driver>>

NextTransposed ==
    \/ Next
    \/ Transpose

SpecTransposed == Init /\ [][NextTransposed]_vars

\* --------------------------------------------- puzzles with one full row

\* The puzzles of width w and height h with one row constrained to [w],
\* every other row to [] and every column to [1], as
\* NonogramBuilder::build validates them and Nonogram::new creates them.
InitBar ==
    /\ \E w \in 1 .. MaxSide, h \in 1 .. MaxSide, bar \in 1 .. MaxSide :
           /\ bar <= h
           /\ width = w
           /\ height = h
           /\ nono_rows = [y \in 1 .. h |-> IF y = bar THEN <<w>> ELSE <<>>]
           /\ nono_cols = [x \in 1 .. w |-> <<1>>]
           /\ cells = Repeat(Undecided, w * h)
    /\ rows = <<>>
    /\ cols = <<>>
    /\ pc = "new"
    /\ round = NoRound
    /\ call = NoCall
    /\ previous = NoPrevious
    /\ builder = NoBuilder
    /\ driver = NoDriver

SpecBar == InitBar /\ [][Next]_vars

\* -------------------------------------------------------- NonogramBuilder

\* Option<usize>
None == <<>>
Some(v) == <<v>>
unwrap(o) == o[1]

\* Result<T, BuilderError>
BuilderOk == [ok |-> TRUE, err |-> "none"]
BuilderErr(e) == [ok |-> FALSE, err |-> e]

\* The widths and heights given to a builder, and the constraints pushed.
BuilderSizes == 0 .. MaxPushes
BuilderConstraints == {<<>>, <<1>>}

\* NonogramBuilder::new(); op is the method called last and ret what it
\* returned.
NonogramBuilder_new ==
    [state |-> "building", width |-> None, height |-> None, rows |-> <<>>,
     cols |-> <<>>, ret |-> BuilderOk, op |-> "new"]

\* NonogramBuilder::new(), and no Nonogram yet.
InitBuilder ==
    /\ width = 0
    /\ height = 0
    /\ cells = <<>>
    /\ nono_rows = <<>>
    /\ nono_cols = <<>>
    /\ rows = <<>>
    /\ cols = <<>>
    /\ pc = "call"
    /\ round = NoRound
    /\ call = NoCall
    /\ previous = NoPrevious
    /\ driver = NoDriver
    /\ builder = NonogramBuilder_new

nonogram_vars == <<width, height, cells, nono_rows, nono_cols, pc>>

\* NonogramBuilder::width gone wrong: a later call replaces the width.
NonogramBuilder_width_replaces(b, w) ==
    [b EXCEPT !.width = Some(w), !.ret = BuilderOk, !.op = "width"]

\* NonogramBuilder::width, on the builder b: the builder after the call,
\* with what the call returned.
NonogramBuilder_width(b, w) ==
    IF b.width # None
    THEN [b EXCEPT !.ret = BuilderErr("WidthAlreadySet"), !.op = "width"]
    ELSE [b EXCEPT !.width = Some(w), !.ret = BuilderOk, !.op = "width"]

\* NonogramBuilder::height
NonogramBuilder_height(b, h) ==
    IF b.height # None
    THEN [b EXCEPT !.ret = BuilderErr("HeightAlreadySet"), !.op = "height"]
    ELSE [b EXCEPT !.height = Some(h), !.ret = BuilderOk, !.op = "height"]

\* NonogramBuilder::push_row_constraint
NonogramBuilder_push_row_constraint(b, constraint) ==
    [b EXCEPT !.rows = Append(b.rows, constraint), !.ret = BuilderOk,
              !.op = "push_row_constraint"]

\* NonogramBuilder::push_col_constraint
NonogramBuilder_push_col_constraint(b, constraint) ==
    [b EXCEPT !.cols = Append(b.cols, constraint), !.ret = BuilderOk,
              !.op = "push_col_constraint"]

\* A call of width on the builder.
BuilderWidth ==
    /\ builder.state = "building"
    /\ \E w \in BuilderSizes : builder' = NonogramBuilder_width(builder, w)
    /\ UNCHANGED <<nonogram_vars, rows, cols, round, call, previous, driver>>

\* A call of height on the builder.
BuilderHeight ==
    /\ builder.state = "building"
    /\ \E h \in BuilderSizes : builder' = NonogramBuilder_height(builder, h)
    /\ UNCHANGED <<nonogram_vars, rows, cols, round, call, previous, driver>>

\* A call of push_row_constraint on the builder.
push_row_constraint ==
    /\ builder.state = "building"
    /\ Len(builder.rows) < MaxPushes
    /\ \E constraint \in BuilderConstraints :
           builder' = NonogramBuilder_push_row_constraint(builder, constraint)
    /\ UNCHANGED <<nonogram_vars, rows, cols, round, call, previous, driver>>

\* A call of push_col_constraint on the builder.
push_col_constraint ==
    /\ builder.state = "building"
    /\ Len(builder.cols) < MaxPushes
    /\ \E constraint \in BuilderConstraints :
           builder' = NonogramBuilder_push_col_constraint(builder, constraint)
    /\ UNCHANGED <<nonogram_vars, rows, cols, round, call, previous, driver>>

\* validate with the two lengths taken for each other.
validate_crossed(b) ==
    IF \/ b.width = None
       \/ b.height = None
       \/ unwrap(b.height) # Len(b.cols)
       \/ unwrap(b.width) # Len(b.rows)
    THEN BuilderErr("Invalid")
    ELSE BuilderOk

\* NonogramBuilder::validate
validate(b) ==
    IF \/ b.width = None
       \/ b.height = None
       \/ unwrap(b.height) # Len(b.rows)
       \/ unwrap(b.width) # Len(b.cols)
    THEN BuilderErr("Invalid")
    ELSE BuilderOk

\* NonogramBuilder::build, which consumes the builder: `self.validate()?`
\* and then Nonogram::new(width, height, cols, rows), the Nonogram that
\* Parser::parse returns and main hands to Solver::new.
BuildNonogram ==
    /\ builder.state = "building"
    /\ builder' = [builder EXCEPT !.state = "built",
                                  !.ret = validate(builder),
                                  !.op = "build"]
    /\ IF validate(builder).ok
       THEN /\ width' = unwrap(builder.width)
            /\ height' = unwrap(builder.height)
            /\ cells' = Repeat(Undecided,
                               unwrap(builder.width) * unwrap(builder.height))
            /\ nono_rows' = builder.rows
            /\ nono_cols' = builder.cols
            /\ pc' = "new"
       ELSE UNCHANGED nonogram_vars

\* A call of build on the builder.
build ==
    /\ BuildNonogram
    /\ UNCHANGED <<rows, cols, round, call, previous, driver>>

NextBuilder ==
    \/ BuilderWidth
    \/ BuilderHeight
    \/ push_row_constraint
    \/ push_col_constraint
    \/ build

SpecBuilder == InitBuilder /\ [][NextBuilder]_vars

(***************************************************************************)
(* Parser::parse, one line of the source at a time.  A line is kept as     *)
(* what the parser's string operations yield on it: lead, whether it       *)
(* starts with white space; word, its first word (what is left of the      *)
(* first space once the leading white space is gone; "" for a line of      *)
(* white space only); num, what args.trim().parse::<usize>() gives on the  *)
(* rest of the line; ints, what parsing the trimmed line as a              *)
(* comma-separated list of usize gives.                                    *)
(***************************************************************************)
MaxLines == 4

SourceLine(lead, word, num, ints) ==
    [lead |-> lead, word |-> word, num |-> num, ints |-> ints]

ParserLines ==
    { SourceLine(FALSE, "", None, None),
      SourceLine(TRUE, "1", None, Some(<<1>>)),
      SourceLine(TRUE, "2", None, Some(<<2>>)),
      SourceLine(FALSE, "columns", None, None),
      SourceLine(FALSE, "rows", None, None),
      SourceLine(TRUE, "rows", None, None),
      SourceLine(FALSE, "width", Some(0), None),
      SourceLine(FALSE, "width", Some(1), None),
      SourceLine(FALSE, "height", Some(1), None),
      SourceLine(FALSE, "height", None, None),
      SourceLine(FALSE, "goal", None, None) }

ParserOk == [ok |-> TRUE, err |-> "none", of |-> "none"]
ParserError(e, of) == [ok |-> FALSE, err |-> e, of |-> of]

\* str::trim
trim(line) == [line EXCEPT !.lead = FALSE]

\* line.split_at(line.find(' ').unwrap_or(line.len())).0
command(line) == IF line.lead THEN "" ELSE line.word

\* The ? on a Result of the builder, in a parser p.
BuilderTry(p, b) ==
    IF b.ret.ok
    THEN [p EXCEPT !.builder = b]
    ELSE [p EXCEPT !.builder = b,
                   !.ret = ParserError("BuilderError", b.ret.err)]

\* Parser::parse_header_line, on the parser p (its builder, its mode and
\* what the call returns).
parse_header_line(p, line) ==
    CASE command(line) = "columns" -> [p EXCEPT !.mode = "Cols"]
      [] command(line) = "rows" -> [p EXCEPT !.mode = "Rows"]
      [] command(line) = "height" ->
            IF line.num = None
            THEN [p EXCEPT !.ret = ParserError("ParseIntError", "none")]
            ELSE BuilderTry(p, NonogramBuilder_height(p.builder,
                                                      unwrap(line.num)))
      [] command(line) = "width" ->
            IF line.num = None
            THEN [p EXCEPT !.ret = ParserError("ParseIntError", "none")]
            ELSE BuilderTry(p, NonogramBuilder_width(p.builder,
                                                     unwrap(line.num)))
      [] OTHER -> p

\* Parser::parse_constraint_line gone wrong: a line that is no list of
\* integers is taken as a header line, but the block stays open.
parse_constraint_line_stays(p, line) ==
    IF trim(line).word = ""
    THEN [p EXCEPT !.mode = "Main"]
    ELSE IF line.ints # None
         THEN CASE p.mode = "Rows" ->
                     [p EXCEPT !.builder = NonogramBuilder_push_row_constraint(
                                               p.builder, unwrap(line.ints))]
                [] p.mode = "Cols" ->
                     [p EXCEPT !.builder = NonogramBuilder_push_col_constraint(
                                               p.builder, unwrap(line.ints))]
                [] p.mode = "Main" ->
                     [p EXCEPT !.ret = ParserError("InternalError", "none")]
         ELSE parse_header_line(p, trim(line))

\* Parser::parse_constraint_line
parse_constraint_line(p, line) ==
    IF trim(line).word = ""
    THEN [p EXCEPT !.mode = "Main"]
    ELSE IF line.ints # None
         THEN CASE p.mode = "Rows" ->
                     [p EXCEPT !.builder = NonogramBuilder_push_row_constraint(
                                               p.builder, unwrap(line.ints))]
                [] p.mode = "Cols" ->
                     [p EXCEPT !.builder = NonogramBuilder_push_col_constraint(
                                               p.builder, unwrap(line.ints))]
                [] p.mode = "Main" ->
                     [p EXCEPT !.ret = ParserError("InternalError", "none")]
         ELSE parse_header_line([p EXCEPT !.mode = "Main"], trim(line))

\* Parser::new(), and a source read whole.
InitParser ==
    /\ width = 0
    /\ height = 0
    /\ cells = <<>>
    /\ nono_rows = <<>>
    /\ nono_cols = <<>>
    /\ rows = <<>>
    /\ cols = <<>>
    /\ pc = "call"
    /\ round = NoRound
    /\ previous = NoPrevious
    /\ driver = NoDriver
    /\ builder = NonogramBuilder_new
    /\ \E source \in SeqUpTo(ParserLines, MaxLines) :
          call = [fn |-> "parse", source |-> source, line |-> 0,
                  mode |-> "Main", done |-> FALSE, ret |-> ParserOk]

\* The parser as its functions take it.
ThisParser == [builder |-> builder, mode |-> call.mode, ret |-> ParserOk]

\* The line the loop of parse is at.
ThisLine == call.source[call.line + 1]

\* The parser after a function has returned p; an Err leaves parse.
ParserBecomes(p) ==
    /\ builder' = p.builder
    /\ call' = [call EXCEPT !.line = @ + 1, !.mode = p.mode, !.ret = p.ret,
                            !.done = ~p.ret.ok]
    /\ UNCHANGED <<nonogram_vars, rows, cols, round, previous, driver>>

\* One turn of the loop of parse in mode Main.
ParseHeaderLine ==
    /\ call.fn = "parse"
    /\ ~call.done
    /\ call.line < Len(call.source)
    /\ call.mode = "Main"
    /\ ParserBecomes(parse_header_line(ThisParser, ThisLine))

\* One turn of the loop of parse in mode Cols or Rows.
ParseConstraintLine ==
    /\ call.fn = "parse"
    /\ ~call.done
    /\ call.line < Len(call.source)
    /\ call.mode \in {"Cols", "Rows"}
    /\ ParserBecomes(parse_constraint_line(ThisParser, ThisLine))

\* The end of parse: Ok(self.builder.build()?)
ParseBuild ==
    /\ call.fn = "parse"
    /\ ~call.done
    /\ call.line = Len(call.source)
    /\ BuildNonogram
    /\ call' = [call EXCEPT !.done = TRUE,
                            !.ret = IF validate(builder).ok
                                    THEN ParserOk
                                    ELSE ParserError("BuilderError",
                                                     validate(builder).err)]
    /\ UNCHANGED <<rows, cols, round, previous, driver>>

NextParser ==
    \/ ParseHeaderLine
    \/ ParseConstraintLine
    \/ ParseBuild

SpecParser == InitParser /\ [][NextParser]_vars

(***************************************************************************)
(* The builder in both its uses: called directly, or held by a parser.     *)
(***************************************************************************)
InitBuilderUsers == InitBuilder \/ InitParser

\* A call on a builder that no parser holds.
DirectBuilderCall ==
    /\ call = NoCall
    /\ NextBuilder

NextBuilderUsers ==
    \/ DirectBuilderCall
    \/ ParseHeaderLine
    \/ ParseConstraintLine
    \/ ParseBuild

SpecBuilderUsers == InitBuilderUsers /\ [][NextBuilderUsers]_vars

\* ---------------------------------------------------- command-line driver

\* A file argument, by what fs::File::open and Parser::parse return for
\* it: open fails, parse fails, or parse returns a Nonogram.
File(kind, w, h, rs, cl) ==
    [kind |-> kind, width |-> w, height |-> h, rows |-> rs, cols |-> cl]

\* The files: one that cannot be opened, one that does not parse, and the
\* puzzles of one cell.
DriverFiles ==
    {File("unreadable", 0, 0, <<>>, <<>>), File("malformed", 0, 0, <<>>, <<>>)}
    \cup {File("puzzle", 1, 1, <<r>>, <<c>>) : r, c \in LineConstraints(1)}

\* main: args().skip(1), before the first file.
InitMain ==
    /\ width = 0
    /\ height = 0
    /\ cells = <<>>
    /\ nono_rows = <<>>
    /\ nono_cols = <<>>
    /\ rows = <<>>
    /\ cols = <<>>
    /\ pc = "main"
    /\ round = NoRound
    /\ call = NoCall
    /\ previous = NoPrevious
    /\ builder = NoBuilder
    /\ \E args \in SeqUpTo(DriverFiles, MaxArgs) :
           driver = [state |-> "main", args |-> args, next |-> 1,
                     out |-> <<>>]

\* The file the loop of main is at.
ThisFile == driver.args[driver.next]

\* main, line 54: fs::File::open failed; `Cannot read` on stderr, and on
\* to the next file.
MainCannotRead ==
    /\ pc = "main"
    /\ driver.next <= Len(driver.args)
    /\ ThisFile.kind = "unreadable"
    /\ driver' = [driver EXCEPT !.next = driver.next + 1,
                                !.out = Append(driver.out, "Cannot read")]
    /\ UNCHANGED <<width, height, cells, nono_rows, nono_cols, rows, cols,
                   pc, round, call, previous, builder>>

\* go, lines 18-20: Parser::parse returned Err; `Error:` on stdout, go
\* returns, and on to the next file.
GoError ==
    /\ pc = "main"
    /\ driver.next <= Len(driver.args)
    /\ ThisFile.kind = "malformed"
    /\ driver' = [driver EXCEPT !.next = driver.next + 1,
                                !.out = Append(driver.out, "Error")]
    /\ UNCHANGED <<width, height, cells, nono_rows, nono_cols, rows, cols,
                   pc, round, call, previous, builder>>

\* go, lines 12-14: Parser::parse returned a Nonogram; its dimensions and
\* its grid are printed and Solver::new is called next.
GoParsed ==
    /\ pc = "main"
    /\ driver.next <= Len(driver.args)
    /\ ThisFile.kind = "puzzle"
    /\ width' = ThisFile.width
    /\ height' = ThisFile.height
    /\ nono_rows' = ThisFile.rows
    /\ nono_cols' = ThisFile.cols
    /\ cells' = Repeat(Undecided, ThisFile.width * ThisFile.height)
    /\ pc' = "new"
    /\ driver' = [driver EXCEPT !.state = "go"]
    /\ UNCHANGED <<rows, cols, round, call, previous, builder>>

\* go, line 16: solve has returned; the Solver is dropped, the grid is
\* printed, go returns, and on to the next file.
GoSolved ==
    /\ pc = "done"
    /\ driver.state = "go"
    /\ driver' = [driver EXCEPT !.state = "main",
                                !.next = driver.next + 1,
                                !.out = Append(driver.out, "Grid")]
    /\ pc' = "main"
    /\ rows' = <<>>
    /\ cols' = <<>>
    /\ round' = NoRound
    /\ UNCHANGED <<width, height, cells, nono_rows, nono_cols, call,
                   previous, builder>>

\* main returns after the last file.
MainReturns ==
    /\ pc = "main"
    /\ driver.next > Len(driver.args)
    /\ pc' = "exit"
    /\ UNCHANGED <<width, height, cells, nono_rows, nono_cols, rows, cols,
                   round, call, previous, builder, driver>>

\* The steps of main; those of Solver::new and solve are in Next.  A panic
\* of the Solver is not caught: the process ends at pc = "panic".
NextMain ==
    \/ MainCannotRead
    \/ GoError
    \/ GoParsed
    \/ Next
    \/ GoSolved
    \/ MainReturns

SpecMain == InitMain /\ [][NextMain]_vars

\* ------------------------------------------- the functions on their own

\* The constraints candidates is applied to on its own.
GenConstraints == SeqUpTo(1 .. MaxRun, MaxRuns)

\* The mask sets find_consensus is applied to on its own: up to MaxMasks
\* masks of one length.
MaskSets ==
    UNION {SeqUpTo([1 .. n -> CellState], MaxMasks) : n \in 0 .. MaxMaskLen}

\* No Solver: the variables of the solver at rest.
NoSolver ==
    /\ width = 0
    /\ height = 0
    /\ cells = <<>>
    /\ nono_rows = <<>>
    /\ nono_cols = <<>>
    /\ rows = <<>>
    /\ cols = <<>>
    /\ pc = "call"
    /\ round = NoRound
    /\ previous = NoPrevious
    /\ builder = NoBuilder
    /\ driver = NoDriver

solver_vars ==
    <<width, height, cells, nono_rows, nono_cols, rows, cols, pc, round,
      previous, builder, driver>>

InitGen ==
    /\ NoSolver
    /\ \E c \in GenConstraints, n \in 0 .. MaxCapacity, b \in BOOLEAN :
           call = [fn |-> "candidates", constraint |-> c, capacity |-> n,
                   overflow_checks |-> b, done |-> FALSE, ret |-> Ok(<<>>)]

\* candidates(&constraint, capacity)
CallCandidates ==
    /\ call.fn = "candidates"
    /\ ~call.done
    /\ call' = [call EXCEPT
                   !.done = TRUE,
                   !.ret = candidates(call.constraint, call.capacity,
                                      call.overflow_checks)]
    /\ UNCHANGED solver_vars

SpecGen == InitGen /\ [][CallCandidates]_vars

InitCons ==
    /\ NoSolver
    /\ \E m \in MaskSets :
           call = [fn |-> "find_consensus", cands |-> m, done |-> FALSE,
                   ret |-> Ok(<<>>)]

\* find_consensus(&cands)
CallFindConsensus ==
    /\ call.fn = "find_consensus"
    /\ ~call.done
    /\ call' = [call EXCEPT !.done = TRUE, !.ret = find_consensus(call.cands)]
    /\ UNCHANGED solver_vars

SpecCons == InitCons /\ [][CallFindConsensus]_vars

\* ------------------------------------------------- the grid on its own

\* A Nonogram with any cells, and a call of row, of column, of an indexed
\* read or of an indexed write, with coordinates up to one past the grid.
InitGrid ==
    /\ \E d \in Dimensions :
           /\ width = d[1]
           /\ height = d[2]
           /\ nono_rows = [y \in 1 .. d[2] |-> <<>>]
           /\ nono_cols = [x \in 1 .. d[1] |-> <<>>]
           /\ cells \in [1 .. d[1] * d[2] -> CellState]
           /\ \E fn \in {"row", "column", "index", "index_mut"},
                 x \in 0 .. d[1], y \in 0 .. d[2], v \in CellState :
                  /\ fn = "row" => (x = 0 /\ v = Undecided)
                  /\ fn = "column" => (y = 0 /\ v = Undecided)
                  /\ fn = "index" => v = Undecided
                  /\ call = [fn |-> fn, x |-> x, y |-> y, v |-> v,
                             before |-> cells, done |-> FALSE,
                             ret |-> Ok(<<>>)]
    /\ rows = <<>>
    /\ cols = <<>>
    /\ pc = "call"
    /\ round = NoRound
    /\ previous = NoPrevious
    /\ builder = NoBuilder
    /\ driver = NoDriver

\* nono.row(y)
CallRow ==
    /\ call.fn = "row"
    /\ ~call.done
    /\ call' = [call EXCEPT !.done = TRUE, !.ret = row(cells, call.y)]
    /\ UNCHANGED solver_vars

\* nono.column(x)
CallColumn ==
    /\ call.fn = "column"
    /\ ~call.done
    /\ call' = [call EXCEPT !.done = TRUE, !.ret = column(cells, call.x)]
    /\ UNCHANGED solver_vars

\* nono[(x, y)]
CallIndex ==
    /\ call.fn = "index"
    /\ ~call.done
    /\ call' = [call EXCEPT !.done = TRUE,
                            !.ret = Index(cells, call.x, call.y)]
    /\ UNCHANGED solver_vars

\* nono[(x, y)] = v
CallIndexMut ==
    /\ call.fn = "index_mut"
    /\ ~call.done
    /\ LET written == IndexMut(cells, call.x, call.y, call.v)
       IN /\ call' = [call EXCEPT !.done = TRUE,
                                  !.ret = IF written.panic THEN Panicked
                                          ELSE Ok(<<>>)]
          /\ cells' = IF written.panic THEN cells ELSE written.val
    /\ UNCHANGED <<width, height, nono_rows, nono_cols, rows, cols, pc,
                   round, previous, builder, driver>>

NextGrid ==
    \/ CallRow
    \/ CallColumn
    \/ CallIndex
    \/ CallIndexMut

SpecGrid == InitGrid /\ [][NextGrid]_vars

\* candidates has returned from a call with these arguments.
Generated(constraint, capacity) ==
    /\ call.fn = "candidates"
    /\ call.done
    /\ call.constraint = constraint
    /\ call.capacity = capacity

\* candidates has returned from a call with a constraint that fits.
GeneratedFitting ==
    /\ call.fn = "candidates"
    /\ call.done
    /\ Sum(call.constraint) <= call.capacity

\* ----------------------------------------------------------------- claims

\* C1: solve starts a round only while the round before it made progress:
\* a cell that was Undecided was determined, or a candidate was eliminated
\* (so that it stops after the first round without progress, and never
\* loops forever).
C1_RoundOnlyAfterProgress == pc = "consensus_rows" => round.progress

\* C2: for a constraint whose sum exceeds the capacity, candidates neither
\* panics nor produces a candidate mask (it reports the infeasible
\* constraint; the code's return type has no value to report it with).
C2_InfeasibleReported ==
    (call.fn = "candidates" /\ call.done
        /\ Sum(call.constraint) > call.capacity)
    => (~call.ret.panic /\ call.ret.val = <<>>)

\* C3: consensus_step never changes a cell that is already Empty or Filled
\* to the other determined value.
C3_NoOverwrite ==
    [][(pc \in {"consensus_rows", "consensus_cols"})
         => (\A i \in 1 .. Len(cells) :
                cells[i] # Undecided => (cells'[i] = cells[i]))]_vars

\* Some line that had candidates is left without one by this step.
EmptiesSomeSet ==
    \/ \E y \in 1 .. Len(rows) : rows[y] # <<>> /\ rows'[y] = <<>>
    \/ \E x \in 1 .. Len(cols) : cols[x] # <<>> /\ cols'[x] = <<>>

\* C4: whenever filter_step removes every candidate of a row or a column,
\* the solver reports a Contradiction (and does not go on, or return,
\* with the emptied set).
C4_EmptiedSetReported ==
    [][(pc \in {"filter_rows", "filter_cols"} /\ EmptiesSomeSet)
         => pc' = "contradiction"]_vars

\* The assignments of lengths to the k + 1 gap slots of k runs: first and
\* last slot >= 0, every interior slot >= 1, blanks in total.
GapAssignments(k, blanks) ==
    {g \in [1 .. k + 1 -> 0 .. blanks] :
        /\ Sum(g) = blanks
        /\ \A j \in 2 .. k : g[j] >= 1}

\* The mask of a gap assignment: Empty * gap[0], Filled * run[0], ...,
\* Empty * gap[k], cell by cell: cell p is Filled when it lies in a run.
\* Run j starts after the first j gaps and the first j - 1 runs.
MaskOfGaps(g, runs) ==
    LET before(j) == Sum(SubSeq(g, 1, j)) + Sum(SubSeq(runs, 1, j - 1))
    IN [p \in 1 .. Sum(g) + Sum(runs) |->
           IF \E j \in 1 .. Len(runs) :
                  before(j) < p /\ p <= before(j) + runs[j]
           THEN Filled
           ELSE Empty]

\* C5: for a constraint that fits, candidates returns exactly the masks of
\* the legal gap assignments, none missing and no other produced; with no
\* run, the one mask of capacity Empty cells.
C5_ExactlyLegalPlacements ==
    GeneratedFitting =>
        /\ ~call.ret.panic
        /\ Range(call.ret.val) =
               {MaskOfGaps(g, call.constraint) :
                   g \in GapAssignments(Len(call.constraint),
                                        call.capacity - Sum(call.constraint))}
        /\ call.constraint = <<>> =>
               call.ret.val = <<[p \in 1 .. call.capacity |-> Empty]>>

\* candidates has returned several placements of two runs, and (in another
\* state) the one mask of no run.
C5_Witness ==
    /\ GeneratedFitting
    /\ \/ Len(call.constraint) = 2 /\ Len(call.ret.val) >= 3
       \/ call.constraint = <<>> /\ call.capacity = 3

C7_MaskLength ==
    GeneratedFitting =>
        \A n \in 1 .. Len(call.ret.val) :
            /\ Len(call.ret.val[n]) = call.capacity
            /\ \A p \in 1 .. Len(call.ret.val[n]) :
                   call.ret.val[n][p] \in {Empty, Filled}

\* candidates has returned masks with a run that does not fill the line.
C7_Witness ==
    /\ GeneratedFitting
    /\ call.ret.val # <<>>
    /\ call.constraint # <<>>
    /\ Sum(call.constraint) < call.capacity

\* find_consensus has returned from a call with a non-empty set.
Reduced == call.fn = "find_consensus" /\ call.done /\ call.cands # <<>>

\* C8: for a non-empty set of masks of one length, find_consensus returns
\* a mask of that length whose cell i is the common value of the masks at
\* i when they all agree, and Undecided when two of them differ.
C8_Consensus ==
    Reduced =>
        /\ ~call.ret.panic
        /\ Len(call.ret.val) = Len(call.cands[1])
        /\ \A i \in 1 .. Len(call.ret.val) :
               call.ret.val[i] =
                   IF \A m, n \in 1 .. Len(call.cands) :
                          call.cands[m][i] = call.cands[n][i]
                   THEN call.cands[1][i]
                   ELSE Undecided
        /\ call.cands = <<<<Filled, Empty>>, <<Filled, Filled>>>> =>
               call.ret.val = <<Filled, Undecided>>

C8_Witness ==
    /\ Reduced
    /\ call.cands = <<<<Filled, Empty>>, <<Filled, Filled>>>>

\* The candidates of cands that fit the known cells: those that, at every
\* position p of the line, have the value of the known cell known(p)
\* unless that cell is Undecided.
Fitting(cands, n, known(_)) ==
    SelectSeq(cands, LAMBDA cand :
        \A p \in 1 .. n : known(p) = Undecided \/ known(p) = cand[p])

\* C9: filter_step keeps a candidate of a row (of a column) if and only if
\* at every position of the line the grid's cell is Undecided or equals
\* the candidate's cell; rows against the row of the grid, columns against
\* the column of the same grid; the grid's cell is the accepting side.
C9_FilterKeepsFitting ==
    [][/\ (pc = "filter_rows") =>
              (\A y \in 0 .. height - 1 :
                  rows'[y + 1] =
                      Fitting(rows[y + 1], width,
                              LAMBDA p : cells[y * width + (p - 1) + 1]))
       /\ (pc = "filter_cols") =>
              (\A x \in 0 .. width - 1 :
                  cols'[x + 1] =
                      Fitting(cols[x + 1], height,
                              LAMBDA p : cells[(p - 1) * width + x + 1]))
       /\ \A v \in CellState : accepts(Undecided, v)
       /\ ~accepts(Empty, Filled)
       /\ ~accepts(Filled, Empty)]_vars

\* filter_step has removed some candidates of a row and kept others.
C9_Witness ==
    /\ pc = "filter_cols"
    /\ \E y \in 1 .. Len(rows) :
           /\ rows[y] # <<>>
           /\ Len(rows[y]) < Len(round.at.rows[y])

\* after is before with some candidates removed and none added.
Shrunk(after, before) ==
    /\ Range(after) \subseteq Range(before)
    /\ Len(after) <= Len(before)

\* C10: once generated, each row's and each column's candidate set only
\* shrinks: after any step it is a subset of what it was before the step,
\* and of the set generated in Solver::new; no step adds a candidate.
C10_SetsOnlyShrink ==
    [][(pc # "new") =>
          /\ Len(rows') = Len(rows)
          /\ Len(cols') = Len(cols)
          /\ \A y \in 1 .. Len(rows) :
                 /\ Shrunk(rows'[y], rows[y])
                 /\ Range(rows'[y]) \subseteq
                        Range(candidates(nono_rows[y], width, FALSE).val)
          /\ \A x \in 1 .. Len(cols) :
                 /\ Shrunk(cols'[x], cols[x])
                 /\ Range(cols'[x]) \subseteq
                        Range(candidates(nono_cols[x], height, FALSE).val)]_vars

\* A round of solve has eliminated candidates of a row and of a column.
C10_Witness ==
    /\ pc = "while"
    /\ round.started
    /\ CountCandidates(rows) < CountCandidates(round.at.rows)
    /\ CountCandidates(cols) < CountCandidates(round.at.cols)

\* C11: solve first resets every cell to Undecided, so what it does is the
\* same whatever the cells held before the call: a Nonogram solved a second
\* time, from any prior cell values, does not panic where the first solve
\* returned, does not loop (it starts no round after a round without
\* progress), and returns with the cells the first solve returned with.
C11_SolveAgainSame ==
    previous.run =>
        /\ pc # "panic"
        /\ pc = "consensus_rows" => round.progress
        /\ pc = "done" => (previous.outcome = "done" /\ cells = previous.cells)

\* A second solve has returned on a grid that held determined cells, other
\* than the ones it returns, before the call.
C11_Witness ==
    /\ previous.run
    /\ pc = "done"
    /\ previous.prior # previous.cells
    /\ \E i \in 1 .. Len(cells) : previous.prior[i] # Undecided

\* C12: on the 5x5 puzzle with one row constrained to [5], every other row
\* to [] and every column to [1], solve does not panic, has no Undecided
\* cell left after its first round, and returns with the constrained row
\* Filled and every other cell Empty.
C12_FullRowSolved ==
    (width = 5 /\ height = 5) =>
        /\ pc # "panic"
        /\ (pc = "while" /\ round.started) =>
               \A i \in 1 .. Len(cells) : cells[i] # Undecided
        /\ pc = "done" =>
               \A x \in 0 .. 4, y \in 0 .. 4 :
                   cells[xy_to_index(x, y) + 1] =
                       IF nono_rows[y + 1] = <<5>> THEN Filled ELSE Empty

\* solve has returned on the 5x5 puzzle whose third row is the full one.
C12_Witness ==
    /\ width = 5
    /\ height = 5
    /\ nono_rows[3] = <<5>>
    /\ pc = "done"

\* C13: a non-empty constraint that needs more than the capacity, its runs
\* and the separators between them counted, is detected when the
\* candidates are generated: candidates does not return an empty
\* candidate set for it.
C13_NoSilentEmptySet ==
    (/\ call.fn = "candidates"
     /\ call.done
     /\ call.constraint # <<>>
     /\ Needed(call.constraint) > call.capacity)
    => ~(~call.ret.panic /\ call.ret.val = <<>>)

\* C14: solving the transposed puzzle ends the way solving the puzzle
\* ends, and when solve returns its grid is the transposed grid of the
\* grid solve returns on the puzzle.
C14_TransposeSymmetric ==
    (previous.run /\ pc \in {"done", "panic"}) =>
        /\ pc = previous.outcome
        /\ pc = "done" =>
               cells = TransposedCells(previous.cells, height, width)

RECURSIVE RunsOf(_, _, _)
\* The lengths of the runs of Filled cells of a line, in order, from cell
\* i on, with run the length of the run that ends before cell i.
RunsOf(line, i, run) ==
    IF i > Len(line)
    THEN IF run > 0 THEN <<run>> ELSE <<>>
    ELSE IF line[i] = Filled
    THEN RunsOf(line, i + 1, run + 1)
    ELSE (IF run > 0 THEN <<run>> ELSE <<>>) \o RunsOf(line, i + 1, 0)

\* Row y and column x (from 0) of a grid of the puzzle.
GridRow(S, y) == [x \in 1 .. width |-> S[y * width + x]]
GridColumn(S, x) == [y \in 1 .. height |-> S[(y - 1) * width + x + 1]]

\* The solution grids of the puzzle: every cell Empty or Filled, and the
\* runs of every row and of every column are its constraint.
Solutions ==
    {S \in [1 .. width * height -> {Empty, Filled}] :
        /\ \A y \in 1 .. height :
               RunsOf(GridRow(S, y - 1), 1, 0) = nono_rows[y]
        /\ \A x \in 1 .. width :
               RunsOf(GridColumn(S, x - 1), 1, 0) = nono_cols[x]}

\* C19: on a puzzle that has a solution grid S, in every state of
\* Solver::new and solve, the rows and columns of S are in the candidate
\* sets of their lines once the sets are generated, every determined cell
\* is the cell of S, and nothing has panicked.
C19_Sound ==
    \A S \in Solutions :
        /\ pc # "panic"
        /\ pc # "new" =>
               /\ Len(rows) = height
               /\ Len(cols) = width
               /\ \A y \in 1 .. height : GridRow(S, y - 1) \in Range(rows[y])
               /\ \A x \in 1 .. width :
                      GridColumn(S, x - 1) \in Range(cols[x])
        /\ \A i \in 1 .. Len(cells) : cells[i] \in {Undecided, S[i]}

\* solve has returned on a puzzle that has a solution grid, after it
\* eliminated a candidate of a row and determined a Filled cell.
C19_Witness ==
    /\ pc = "done"
    /\ Solutions # {}
    /\ \E i \in 1 .. Len(cells) : cells[i] = Filled
    /\ \E y \in 1 .. Len(rows) : Len(rows[y]) < Len(round.at.rows[y])

\* C15: build returns a Nonogram exactly when width and height were both
\* set, as many row constraints as the height were pushed and as many
\* column constraints as the width, and BuilderError::Invalid otherwise;
\* the Nonogram has the width and the height set, the row and column
\* constraints pushed, in order, rows.len() = height, cols.len() = width,
\* and width * height cells, all Undecided.
C15_BuildValidates ==
    builder.state = "built" =>
        /\ builder.ret.ok <=>
               /\ builder.width # None
               /\ builder.height # None
               /\ Len(builder.rows) = unwrap(builder.height)
               /\ Len(builder.cols) = unwrap(builder.width)
        /\ ~builder.ret.ok => (builder.ret.err = "Invalid" /\ pc = "call")
        /\ builder.ret.ok =>
               /\ pc = "new"
               /\ width = unwrap(builder.width)
               /\ height = unwrap(builder.height)
               /\ nono_rows = builder.rows
               /\ nono_cols = builder.cols
               /\ Len(nono_rows) = height
               /\ Len(nono_cols) = width
               /\ Len(cells) = width * height
               /\ \A i \in 1 .. Len(cells) : cells[i] = Undecided

\* build has returned a Nonogram of width 2 and height 3.
C15_Witness ==
    /\ builder.state = "built"
    /\ builder.ret.ok
    /\ width = 2
    /\ height = 3
    /\ nono_rows # nono_cols

\* The masks with the i-th and the j-th exchanged.
Exchanged(cands, i, j) ==
    [k \in 1 .. Len(cands) |->
        IF k = i THEN cands[j] ELSE IF k = j THEN cands[i] ELSE cands[k]]

\* C16: consensus_eq is commutative, associative and idempotent over
\* CellState, and find_consensus returns the same mask for every ordering
\* of the masks of a non-empty set of masks of one length: the same mask
\* when any two masks of the set are exchanged, for every set (every
\* ordering is reached by exchanges, and every set on the way is one of
\* the sets called with).
C16_OrderIndependent ==
    /\ \A a, b, c \in CellState :
           /\ consensus_eq(a, b) = consensus_eq(b, a)
           /\ consensus_eq(consensus_eq(a, b), c) =
                  consensus_eq(a, consensus_eq(b, c))
           /\ consensus_eq(a, a) = a
    /\ Reduced =>
           \A i, j \in 1 .. Len(call.cands) :
               i < j => find_consensus(Exchanged(call.cands, i, j)) = call.ret

\* find_consensus has returned from a call with three masks of two cells,
\* all different, that agree on their second cell only.
C16_Witness ==
    /\ Reduced
    /\ Len(call.cands) = 3
    /\ call.cands[1] # call.cands[2]
    /\ call.cands[2] # call.cands[3]
    /\ call.cands[1] # call.cands[3]
    /\ call.ret.val = <<Undecided, Filled>>

\* The masks of the legal placements of a constraint in a capacity.
LegalMasks(constraint, capacity) ==
    {MaskOfGaps(g, constraint) :
        g \in GapAssignments(Len(constraint), capacity - Sum(constraint))}

\* C17: no step of Solver::new or solve changes the width, the height, the
\* row constraints, the column constraints or the number of cells;
\* Solver::new writes no cell and generates the candidate sets from the
\* constraints and the capacities alone, whatever the cells hold; after it
\* no step puts a candidate into a set.
C17_Frame ==
    [][/\ width' = width
       /\ height' = height
       /\ nono_rows' = nono_rows
       /\ nono_cols' = nono_cols
       /\ Len(cells') = Len(cells)
       /\ (pc = "new") =>
              /\ cells' = cells
              /\ (pc' = "solve") =>
                     /\ Len(rows') = height
                     /\ Len(cols') = width
                     /\ \A y \in 1 .. height :
                            Range(rows'[y]) = LegalMasks(nono_rows[y], width)
                     /\ \A x \in 1 .. width :
                            Range(cols'[x]) = LegalMasks(nono_cols[x], height)
       /\ (pc \notin {"new", "done"}) =>
              /\ Len(rows') = Len(rows)
              /\ Len(cols') = Len(cols)
              /\ \A y \in 1 .. Len(rows) : Range(rows'[y]) \subseteq Range(rows[y])
              /\ \A x \in 1 .. Len(cols) : Range(cols'[x]) \subseteq Range(cols[x])
      ]_vars

\* Solver::new has generated the candidate sets for a grid whose cells
\* are all Filled, and one of its rows has a candidate with an Empty cell.
C17_Witness ==
    /\ pc = "solve"
    /\ cells # <<>>
    /\ \A i \in 1 .. Len(cells) : cells[i] = Filled
    /\ \E y \in 1 .. Len(rows) :
           \E n \in 1 .. Len(rows[y]) :
               \E i \in 1 .. Len(rows[y][n]) : rows[y][n][i] = Empty

\* C20: when solve returns, with no Undecided cell left, every row of the
\* grid is one of the masks of the legal placements of that row's
\* constraint and every column one of those of that column's constraint;
\* so solve does not return on a puzzle that has no solution.
C20_SolvedSatisfies ==
    pc = "done" =>
        /\ \A y \in 1 .. height :
               GridRow(cells, y - 1) \in LegalMasks(nono_rows[y], width)
        /\ \A x \in 1 .. width :
               GridColumn(cells, x - 1) \in LegalMasks(nono_cols[x], height)
        /\ Solutions # {}

\* The files main has taken from its arguments: those it is done with,
\* and the one go is at.
FilesTaken == IF driver.state = "go" THEN driver.next ELSE driver.next - 1

\* C18: an error on one file does not keep the driver from the files after
\* it: when the process has ended, main has taken every file argument.
C18_EveryFileTaken ==
    pc \in {"exit", "panic"} => FilesTaken = Len(driver.args)

\* The consensus of a non-empty set of masks at position p (from 1).
ConsensusAt(set, p) ==
    IF \A m, n \in 1 .. Len(set) : set[m][p] = set[n][p]
    THEN set[1][p]
    ELSE Undecided

\* The grid after the consensus of a round: the cell at (x, y) is the
\* consensus of its column when that is determined, else the consensus of
\* its row when that is determined, else what it was; the consensus is
\* that of the sets at the start of the round.
AfterConsensus ==
    [i \in 1 .. width * height |->
        LET x == (i - 1) % width
            y == (i - 1) \div width
            r == ConsensusAt(round.at.rows[y + 1], x + 1)
            c == ConsensusAt(round.at.cols[x + 1], y + 1)
        IN IF c # Undecided THEN c
           ELSE IF r # Undecided THEN r
           ELSE round.at.cells[i]]

\* The sets of the rows and of the columns at the start of the round,
\* filtered against the grid.
RowsFiltered ==
    [y \in 1 .. height |->
        Fitting(round.at.rows[y], width,
                LAMBDA p : cells[(y - 1) * width + p])]
ColsFiltered ==
    [x \in 1 .. width |->
        Fitting(round.at.cols[x], height,
                LAMBDA p : cells[(p - 1) * width + x])]

\* C21: in a round, the rows' and then the columns' consensus, both of the
\* sets as the round before left them, are written before any set is
\* filtered, and the rows and the columns are both filtered against the
\* grid as the whole consensus left it.
C21_RoundOrder ==
    /\ pc = "consensus_rows" =>
           round.at = Snapshot(cells, rows, cols)
    /\ pc = "consensus_cols" =>
           (rows = round.at.rows /\ cols = round.at.cols)
    /\ pc = "filter_rows" =>
           /\ cells = AfterConsensus
           /\ rows = round.at.rows
           /\ cols = round.at.cols
    /\ pc = "filter_cols" =>
           /\ cells = AfterConsensus
           /\ rows = RowsFiltered
           /\ cols = round.at.cols
    /\ (pc = "while" /\ round.started) =>
           /\ cells = AfterConsensus
           /\ rows = RowsFiltered
           /\ cols = ColsFiltered

\* A round has ended in which the consensus determined a cell and the
\* filter eliminated a candidate of a row and a candidate of a column.
C21_Witness ==
    /\ pc = "while"
    /\ round.started
    /\ cells # round.at.cells
    /\ CountCandidates(rows) < CountCandidates(round.at.rows)
    /\ CountCandidates(cols) < CountCandidates(round.at.cols)
    /\ \A y \in 1 .. Len(rows) : rows[y] # <<>>
    /\ \A x \in 1 .. Len(cols) : cols[x] # <<>>

\* C22: after the reset at the start of solve, no step of solve sets a
\* cell back to Undecided: a cell that is Empty or Filled before a step is
\* Empty or Filled after it, and no step adds an Undecided cell.
C22_NeverBackToUndecided ==
    [][(pc \notin {"new", "solve"}) =>
          /\ Len(cells') = Len(cells)
          /\ \A i \in 1 .. Len(cells) :
                 cells[i] # Undecided => cells'[i] # Undecided]_vars

\* The columns' consensus has been written on a grid with a cell that the
\* rows' consensus determined and that the consensus of its column leaves
\* Undecided.
C22_Witness ==
    /\ pc = "filter_rows"
    /\ \E x \in 1 .. width, y \in 1 .. height :
           /\ cols[x] # <<>>
           /\ ConsensusAt(cols[x], y) = Undecided
           /\ cells[(y - 1) * width + x] # Undecided

\* C23: at the end of a round and at the start of the next, every
\* candidate left in the set of a row or of a column has, at every
\* determined cell of its line, the value of the grid; so the consensus of a set that is not empty, as the next
\* round computes it, is the value of the grid at every determined cell
\* of the line.
C23_CandidatesAgreeWithGrid ==
    (pc \in {"while", "consensus_rows"}) =>
        /\ \A y \in 1 .. height, x \in 1 .. width :
               cells[(y - 1) * width + x] # Undecided =>
                   /\ \A n \in 1 .. Len(rows[y]) :
                          rows[y][n][x] = cells[(y - 1) * width + x]
                   /\ rows[y] # <<>> =>
                          find_consensus(rows[y]).val[x] =
                              cells[(y - 1) * width + x]
                   /\ \A n \in 1 .. Len(cols[x]) :
                          cols[x][n][y] = cells[(y - 1) * width + x]
                   /\ cols[x] # <<>> =>
                          find_consensus(cols[x]).val[y] =
                              cells[(y - 1) * width + x]

\* A round starts after one that determined a cell of a row and left
\* that row some candidates, fewer than it had.
C23_Witness ==
    /\ pc = "consensus_rows"
    /\ \E y \in 1 .. height, x \in 1 .. width :
           /\ cells[(y - 1) * width + x] # Undecided
           /\ rows[y] # <<>>
           /\ Len(rows[y]) < Len(candidates(nono_rows[y], width, FALSE).val)

\* C24: for a constraint of positive runs whose sum is at most the
\* capacity, candidates returns no mask twice, and as many masks as there
\* are legal gap assignments.
C24_NoDuplicateMasks ==
    GeneratedFitting =>
        /\ ~call.ret.panic
        /\ \A i, j \in 1 .. Len(call.ret.val) :
               call.ret.val[i] = call.ret.val[j] => i = j
        /\ Len(call.ret.val) =
               Cardinality(GapAssignments(Len(call.constraint),
                               call.capacity - Sum(call.constraint)))

\* candidates has returned six masks for two runs of 1 in a capacity of 5.
C24_Witness ==
    /\ Generated(<<1, 1>>, 5)
    /\ Len(call.ret.val) = 6

\* A call on the grid has returned; (x, y) is a cell of the grid.
GridCalled(fn) == call.fn = fn /\ call.done
InGrid(x, y) == x < width /\ y < height

\* C25: the cell (x, y) is stored at index y * width + x; row(y), for
\* y < height, is the width cells of row y in the order of x, and
\* column(x), for x < width, the height cells of column x in the order of
\* y, each the cell that nono[(x, y)] reads; row(y) for y >= height and
\* column(x) for x >= width are None; nono[(x, y)] = v changes the cell at
\* y * width + x to v and no other cell.
C25_GridAddressing ==
    /\ GridCalled("index") =>
           (InGrid(call.x, call.y) =>
               call.ret = Ok(cells[call.y * width + call.x + 1]))
    /\ GridCalled("row") =>
           IF call.y >= height
           THEN call.ret.panic
           ELSE /\ ~call.ret.panic
                /\ Len(call.ret.val) = width
                /\ \A x \in 0 .. width - 1 :
                       /\ call.ret.val[x + 1] = cells[call.y * width + x + 1]
                       /\ call.ret.val[x + 1] = Index(cells, x, call.y).val
    /\ GridCalled("column") =>
           IF call.x >= width
           THEN call.ret.panic
           ELSE /\ ~call.ret.panic
                /\ Len(call.ret.val) = height
                /\ \A y \in 0 .. height - 1 :
                       /\ call.ret.val[y + 1] = cells[y * width + call.x + 1]
                       /\ call.ret.val[y + 1] = Index(cells, call.x, y).val
    /\ GridCalled("index_mut") =>
           (InGrid(call.x, call.y) =>
               /\ ~call.ret.panic
               /\ Len(cells) = Len(call.before)
               /\ \A i \in 1 .. Len(cells) :
                      cells[i] = IF i = call.y * width + call.x + 1
                                 THEN call.v
                                 ELSE call.before[i])

\* column(1) has returned on a 2x2 grid whose four cells are not all the
\* same and whose second column differs from its second row.
C25_Witness ==
    /\ GridCalled("column")
    /\ width = 2
    /\ height = 2
    /\ call.x = 1
    /\ call.ret.val = <<Empty, Filled>>
    /\ cells = <<Undecided, Empty, Filled, Filled>>

\* The step is a call of the builder's method op.
BuilderCalled(op) == builder' # builder /\ builder'.op = op

\* The step is a call of the builder's method op by a parser at its line.
ParserCalled(op) == call # NoCall /\ BuilderCalled(op)

\* The lines of the source that begin with the header key word.
HeaderLines(source, word) ==
    {i \in 1 .. Len(source) : ~source[i].lead /\ source[i].word = word}

\* C26: the builder's width and height are set once.  The first call of
\* width(w) stores w and returns Ok; a later call returns WidthAlreadySet
\* and leaves the stored width as it was; height likewise with
\* HeightAlreadySet; neither call changes the other dimension or the pushed
\* row and column constraints.  A parser that gets the refusal returns it
\* at once, and a source with two width lines or two height lines is
\* rejected by parse.
C26_SetOnce ==
    [][/\ BuilderCalled("width") =>
             /\ IF builder.width = None
                THEN /\ builder'.ret = BuilderOk
                     /\ builder'.width \in {Some(w) : w \in BuilderSizes}
                     /\ ParserCalled("width") =>
                            builder'.width = ThisLine.num
                ELSE /\ builder'.ret = BuilderErr("WidthAlreadySet")
                     /\ builder'.width = builder.width
             /\ builder'.height = builder.height
             /\ builder'.rows = builder.rows
             /\ builder'.cols = builder.cols
       /\ BuilderCalled("height") =>
             /\ IF builder.height = None
                THEN /\ builder'.ret = BuilderOk
                     /\ builder'.height \in {Some(h) : h \in BuilderSizes}
                     /\ ParserCalled("height") =>
                            builder'.height = ThisLine.num
                ELSE /\ builder'.ret = BuilderErr("HeightAlreadySet")
                     /\ builder'.height = builder.height
             /\ builder'.width = builder.width
             /\ builder'.rows = builder.rows
             /\ builder'.cols = builder.cols
       /\ (\/ ParserCalled("width")
           \/ ParserCalled("height")) =>
             IF builder'.ret.ok
             THEN ~call'.done
             ELSE /\ call'.done
                  /\ call'.ret = ParserError("BuilderError", builder'.ret.err)
       /\ (/\ call # NoCall
           /\ call'.done
           /\ \/ Cardinality(HeaderLines(call.source, "width")) >= 2
              \/ Cardinality(HeaderLines(call.source, "height")) >= 2) =>
             ~call'.ret.ok]_vars

\* parse has rejected a source for its second width line, which asks for
\* another width than the first, after a row constraint was pushed; the
\* builder has kept the first width and the row constraint.
C26_Witness ==
    /\ call # NoCall
    /\ call.done
    /\ call.ret = ParserError("BuilderError", "WidthAlreadySet")
    /\ call.line = 4
    /\ call.source[1].word = "width"
    /\ call.source[4].word = "width"
    /\ call.source[4].num # call.source[1].num
    /\ builder.width = call.source[1].num
    /\ builder.rows = <<(<<1>>)>>

\* The step is one turn of the loop of parse.
LineParsed == call # NoCall /\ call'.line = call.line + 1

\* The mode a header line with this first word leaves the parser in.
ModeOf(word) ==
    CASE word = "columns" -> "Cols"
      [] word = "rows" -> "Rows"
      [] OTHER -> "Main"

\* C27: the mode machine of the parser.  In mode Main a line that begins
\* with columns or rows switches to Cols or Rows, and no line is appended
\* to a list.  In mode Cols (Rows) a line that parses as a comma-separated
\* list of integers is appended at the end of the column (row) constraints,
\* the other list and the mode are unchanged; a blank line switches to
\* Main; any other line switches to Main and is processed as a header
\* line: columns or rows opens the next block, width or height with a
\* number reaches the builder.  A list only ever grows by the line read in
\* its own mode.
C27_ModeMachine ==
    [][LineParsed =>
          /\ (call.mode = "Main") =>
                /\ call'.mode = ModeOf(command(ThisLine))
                /\ builder'.cols = builder.cols
                /\ builder'.rows = builder.rows
          /\ (call.mode = "Cols" /\ ThisLine.ints # None) =>
                /\ call'.mode = "Cols"
                /\ call'.ret.ok
                /\ builder'.cols = Append(builder.cols, unwrap(ThisLine.ints))
                /\ builder'.rows = builder.rows
          /\ (call.mode = "Rows" /\ ThisLine.ints # None) =>
                /\ call'.mode = "Rows"
                /\ call'.ret.ok
                /\ builder'.rows = Append(builder.rows, unwrap(ThisLine.ints))
                /\ builder'.cols = builder.cols
          /\ (call.mode # "Main" /\ ThisLine.word = "") =>
                /\ call'.mode = "Main"
                /\ call'.ret.ok
                /\ builder' = builder
          /\ (call.mode # "Main" /\ ThisLine.word # ""
                                 /\ ThisLine.ints = None) =>
                /\ call'.mode = ModeOf(ThisLine.word)
                /\ builder'.cols = builder.cols
                /\ builder'.rows = builder.rows
                /\ (ThisLine.word = "width" /\ ThisLine.num # None) =>
                       builder'.op = "width"
                /\ (ThisLine.word = "height" /\ ThisLine.num # None) =>
                       builder'.op = "height"
                /\ (ThisLine.word \in {"width", "height"}
                       /\ ThisLine.num = None) =>
                       call'.ret = ParserError("ParseIntError", "none")
          /\ (builder'.cols # builder.cols) => call.mode = "Cols"
          /\ (builder'.rows # builder.rows) => call.mode = "Rows"]_vars

\* parse has read a block of columns ended by the key word rows, and a
\* first line of the block of rows: each list has the line of its block.
C27_Witness ==
    /\ call # NoCall
    /\ call.line = 4
    /\ call.source[1].word = "columns"
    /\ call.source[2].ints = Some(<<1>>)
    /\ call.source[3].word = "rows"
    /\ call.source[4].ints = Some(<<2>>)
    /\ call.mode = "Rows"
    /\ builder.cols = <<(<<1>>)>>
    /\ builder.rows = <<(<<2>>)>>

====
